---------------------------- MODULE Spec2Model ----------------------------
(***************************************************************************)
(* A model of the File Rebrander (src/app.py): the perceptual-hash match   *)
(* decision, the three per-format image replacement loops, the text        *)
(* substitution pass of word-processing documents and the batch loop that  *)
(* packs the outputs into one archive.                                     *)
(*                                                                         *)
(* Texts are sequences of one-character strings, names (file names, part   *)
(* names, archive entry names, content types) are sequences of tokens, a   *)
(* fingerprint is the set of the bit positions that are set in the 64-bit  *)
(* perceptual hash, and a byte payload ("blob") is a record saying what    *)
(* the imaging library makes of it and which fingerprint it hashes to.     *)
(***************************************************************************)
EXTENDS Integers, Sequences, FiniteSets, TLC

VARIABLES
    mapping_text,  \* the lines of the mapping text area (app.py 203-207)
    new_logo,      \* the uploaded new logo's bytes, or NoFile (app.py 209)
    uploaded,      \* the uploaded documents, in upload order (app.py 210)
    old_logo_dir,  \* the files of OLD_LOGO_DIR, in iterdir() order (app.py 28)
    old_hashes,    \* the reference fingerprints loaded at the click (app.py 216)
    converter,     \* whether the ImageMagick "convert" CLI is installed
    pc,            \* where the script is
    run,           \* 1: first run; 2: the outputs of run 1 uploaded again
    fileIdx,       \* position of the batch loop in uploaded
    zf,            \* entries of the output archive written so far
    doc,           \* the document object being processed
    it,            \* cursor of the per-image loop of the current document
    log,           \* the st.write debug lines of the image loops
    crash          \* the exception that ended the script, or "none"

vars == <<mapping_text, new_logo, uploaded, old_logo_dir, old_hashes, converter, pc, run,
          fileIdx, zf, doc, it, log, crash>>

---------------------------------------------------------------------------
(* Bounds of the model.                                                    *)

\* most parts of a word-processing package, shapes of the first slide,
\* entries of a workbook archive
MaxImages == 2
\* most runs of a paragraph
MaxRuns == 2
\* most files of a batch
MaxBatch == 3
\* largest shape id the shape loop of a slide may hand out
MaxShapeId == 6

\* sequences over S of length at most n
SeqUpTo(S, n) == UNION {[1..k -> S] : k \in 0..n}

---------------------------------------------------------------------------
(* Python strings as sequences of characters.                              *)

\* s[i:].startswith(f), 1-based
StartsWithAt(s, f, i) ==
    /\ i + Len(f) - 1 <= Len(s)
    /\ \A k \in 1..Len(f) : s[i + k - 1] = f[k]

\* `find in s`
Contains(f, s) == \E i \in 1..(Len(s) + 1) : StartsWithAt(s, f, i)

RECURSIVE ReplaceFrom(_, _, _, _)
\* the non-empty-pattern case of str.replace: leftmost, non-overlapping
ReplaceFrom(s, f, r, i) ==
    IF i > Len(s) THEN <<>>
    ELSE IF StartsWithAt(s, f, i) THEN r \o ReplaceFrom(s, f, r, i + Len(f))
    ELSE <<s[i]>> \o ReplaceFrom(s, f, r, i + 1)

RECURSIVE Interleave(_, _, _)
\* the empty-pattern case of str.replace: r before every character and at the end
Interleave(s, r, i) ==
    IF i > Len(s) THEN r ELSE r \o <<s[i]>> \o Interleave(s, r, i + 1)

\* s.replace(f, r)
StrReplace(s, f, r) ==
    IF f = <<>> THEN Interleave(s, r, 1) ELSE ReplaceFrom(s, f, r, 1)

RECURSIVE Concat(_)
\* "".join(texts)
Concat(texts) ==
    IF texts = <<>> THEN <<>> ELSE Head(texts) \o Concat(Tail(texts))

RECURSIVE JoinLines(_)
\* "\n".join(texts)
JoinLines(texts) ==
    IF texts = <<>> THEN <<>>
    ELSE IF Len(texts) = 1 THEN Head(texts)
    ELSE Head(texts) \o <<"\n">> \o JoinLines(Tail(texts))

---------------------------------------------------------------------------
(* The mapping table (app.py 203-208).                                     *)

OldFull == <<"A", "e", "c", "o", "n", " ", "G", "r", "o", "u", "p", " ", "I", "n", "c", ".", " ", "(", "A", "G", "I", ")">>
OldName == <<"A", "e", "c", "o", "n", " ", "G", "r", "o", "u", "p", " ", "I", "n", "c", ".">>
OldAbbr == <<"A", "G", "I">>
OldShort == <<"A", "e", "c", "o", "n">>
NewFull == <<"N", "o", "r", "t", "h", " ", "E", "n", "d", " ", "C", "o", "n", "n", "e", "c", "t", "o", "r", "s", " ", "(", "N", "E", "C", ")">>
NewAbbr == <<"N", "E", "C">>

\* the default value of the text area, line by line
DefaultMappingText ==
    << OldFull \o <<",">> \o NewFull,
       OldName \o <<",">> \o NewFull,
       OldAbbr \o <<",">> \o NewAbbr,
       OldShort \o <<",">> \o NewFull >>

\* line.strip() is empty
IsBlank(line) == \A i \in 1..Len(line) : line[i] = " "

\* line.split(",", 1) of a line that holds a comma
SplitOnce(line) ==
    LET i == CHOOSE k \in 1..Len(line) :
                 line[k] = "," /\ \A j \in 1..(k - 1) : line[j] # ","
    IN  << SubSeq(line, 1, i - 1), SubSeq(line, i + 1, Len(line)) >>

\* d[k] = v on an insertion-ordered dict: a known key keeps its place
DictSet(d, k, v) ==
    IF \E i \in 1..Len(d) : d[i][1] = k
    THEN [i \in 1..Len(d) |-> IF d[i][1] = k THEN <<k, v>> ELSE d[i]]
    ELSE Append(d, <<k, v>>)

RECURSIVE ParseFrom(_, _, _)
ParseFrom(lines, i, d) ==
    IF i > Len(lines) THEN d
    ELSE IF IsBlank(lines[i]) THEN ParseFrom(lines, i + 1, d)
    ELSE LET kv == SplitOnce(lines[i])
         IN  ParseFrom(lines, i + 1, DictSet(d, kv[1], kv[2]))

\* mappings = dict(line.split(",",1) for line in ... if line.strip()),
\* as the sequence of its items()
ParseMappings(lines) == ParseFrom(lines, 1, <<>>)

mappings == ParseMappings(mapping_text)

---------------------------------------------------------------------------
(* replace_text_docx (app.py 46-57).  A paragraph is the sequence of its   *)
(* runs' texts; a table cell is the sequence of its paragraphs.            *)

\* p.text
ParText(p) == Concat(p)

\* the body of `for find, replace in mappings.items()` for one paragraph
ReplaceRunsOnce(p, find, replace) ==
    IF Contains(find, ParText(p))
    THEN [k \in 1..Len(p) |-> StrReplace(p[k], find, replace)]
    ELSE p

RECURSIVE ReplaceRuns(_, _, _)
ReplaceRuns(p, m, i) ==
    IF i > Len(m) THEN p
    ELSE ReplaceRuns(ReplaceRunsOnce(p, m[i][1], m[i][2]), m, i + 1)

\* cell.text
CellText(c) == JoinLines([k \in 1..Len(c) |-> ParText(c[k])])

\* cell.text = t: the cell's content is cleared and one paragraph holding
\* one run with the whole text is added
SetCellText(t) == << <<t>> >>

ReplaceCellOnce(c, find, replace) ==
    IF Contains(find, CellText(c))
    THEN SetCellText(StrReplace(CellText(c), find, replace))
    ELSE c

RECURSIVE ReplaceCell(_, _, _)
ReplaceCell(c, m, i) ==
    IF i > Len(m) THEN c
    ELSE ReplaceCell(ReplaceCellOnce(c, m[i][1], m[i][2]), m, i + 1)

\* replace_text_docx(doc, mappings)
replace_text_docx(d, m) ==
    [d EXCEPT !.paragraphs = [k \in 1..Len(d.paragraphs) |->
                                 ReplaceRuns(d.paragraphs[k], m, 1)],
              !.cells = [k \in 1..Len(d.cells) |->
                                 ReplaceCell(d.cells[k], m, 1)]]

---------------------------------------------------------------------------
(* Names: sequences of tokens.                                             *)

\* one token of str.lower()
LowerTok(t) ==
    CASE t = "WMF" -> "wmf"
      [] t = "PNG" -> "png"
      [] t = "DOCX" -> "docx"
      [] t = "PPTX" -> "pptx"
      [] t = "XLSX" -> "xlsx"
      [] OTHER -> t

\* name.lower()
Lower(name) == [k \in 1..Len(name) |-> LowerTok(name[k])]

\* name.endswith(suffix)
EndsWith(name, suffix) ==
    /\ Len(suffix) <= Len(name)
    /\ SubSeq(name, Len(name) - Len(suffix) + 1, Len(name)) = suffix

\* name.startswith(prefix)
StartsWith(name, prefix) ==
    /\ Len(prefix) <= Len(name)
    /\ SubSeq(name, 1, Len(prefix)) = prefix

---------------------------------------------------------------------------
(* Fingerprints and the match decision.                                    *)

\* Hamming distance threshold for perceptual hash matching
HASH_THRESHOLD == 25

\* `None`, the minimum distance over an empty reference set
NoDist == -1

\* h - old_h of imagehash: the number of bit positions that differ
Hamming(h1, h2) == Cardinality((h1 \ h2) \cup (h2 \ h1))

Abs(n) == IF n < 0 THEN -n ELSE n

\* distances = [abs(h - old_h) for old_h in old_hashes]
Distances(h, refs) == [i \in 1..Len(refs) |-> Abs(Hamming(h, refs[i]))]

\* min(distances)
MinOf(ds) == CHOOSE m \in {ds[i] : i \in 1..Len(ds)} :
                 \A i \in 1..Len(ds) : m <= ds[i]

\* a variant that takes the minimum over no distance to be 0
MinDistEmptyIsZero(h, refs) ==
    IF Distances(h, refs) = <<>> THEN 0 ELSE MinOf(Distances(h, refs))

\* min_dist = min(distances) if distances else None
MinDist(h, refs) ==
    IF Distances(h, refs) = <<>> THEN NoDist ELSE MinOf(Distances(h, refs))

\* min_dist is not None and min_dist <= HASH_THRESHOLD
IsMatch(d) == d # NoDist /\ d <= HASH_THRESHOLD

\* the fingerprints the model draws from: at distance 0, T, T+1, T+2 and 2T+2
\* from the all-zero hash
FpZero == {}
FpNear == 1..HASH_THRESHOLD
FpOver == 1..(HASH_THRESHOLD + 1)
FpMid == 1..(HASH_THRESHOLD + 2)
FpFar == 1..(2 * HASH_THRESHOLD + 2)

---------------------------------------------------------------------------
(* Byte payloads and what the imaging tools make of them.                  *)
(*   raster : a complete PNG/JPEG; hashes to fp                            *)
(*   trunc  : a raster whose header parses and whose pixel data is cut     *)
(*   wmf    : a Windows metafile that rasterizes to an image hashing to fp *)
(*   junk   : bytes that are no image                                      *)
(*   empty  : no bytes                                                     *)

Raster(fp) == [kind |-> "raster", fp |-> fp]
Metafile(fp) == [kind |-> "wmf", fp |-> fp]
Truncated == [kind |-> "trunc", fp |-> {}]
Junk == [kind |-> "junk", fp |-> {}]
EmptyData == [kind |-> "empty", fp |-> {}]
NoFile == [kind |-> "nofile", fp |-> {}]

\* Image.open(BytesIO(b)) returns: the header is recognised (Pillow opens
\* a metafile as a stub image)
ImageOpens(b) == b.kind \in {"raster", "trunc", "wmf"}

\* imagehash.phash(img) returns: the pixel data loads (a truncated file
\* and, without a registered metafile handler, a metafile raise OSError)
PhashOk(b) == b.kind = "raster"

\* imagehash.phash(img)
Phash(b) == b.fp

\* wmf_to_png_blob(b): `convert` is run with check=True, so a missing
\* binary or a non-zero exit raises; its output is a PNG of the same picture
wmf_to_png_blob(b) ==
    [ok |-> converter /\ b.kind \in {"wmf", "raster"}, blob |-> Raster(b.fp)]

\* python-pptx's add_picture(BytesIO(b), ...) returns: it reads the image's
\* format and size from the header and raises on bytes that are no image
AddPictureOk(b) == b.kind \in {"raster", "trunc"}

\* `and data` of process_excel: the bytes are non-empty
NonEmpty(b) == b.kind # "empty"

ImagePng == <<"image/", "png">>
ImageWmf == <<"image/", "x-wmf">>
AppXml == <<"application/", "xml">>

\* one st.write line of an image loop
Ev(what, s, k, d) ==
    [run |-> run, file |-> fileIdx, slide |-> s, key |-> k,
     what |-> what, dist |-> d]

---------------------------------------------------------------------------
(* replace_images_docx (app.py 59-100), one iteration of its loop.         *)
(* A part is [partname, content_type, blob]; rels are the relationships of *)
(* the main document part, each [reltype, target] with target the index of *)
(* the part it points at.                                                  *)

\* steps 3a and 3b: overwrite the part, then every image relationship
\* target of that (lower-cased) part name
OverwritePart(parts, rels, i, partname, blob) ==
    [j \in 1..Len(parts) |->
        IF \/ j = i
           \/ \E r \in 1..Len(rels) :
                 /\ rels[r].reltype = "image"
                 /\ rels[r].target = j
                 /\ Lower(parts[j].partname) = partname
        THEN [parts[j] EXCEPT !.blob = blob, !.content_type = ImagePng]
        ELSE parts[j]]

\* the iteration for part i: the document and log after it, and whether
\* an exception left the function
DocxPartStep(d, i, lg) ==
    LET part == d.parts[i]
        partname == Lower(part.partname)
        isWmf == EndsWith(partname, <<".", "wmf">>)
        conv == wmf_to_png_blob(part.blob)
        raw == IF isWmf THEN conv.blob ELSE part.blob
        d1 == IF isWmf
              THEN [d EXCEPT !.parts[i].content_type = ImagePng]
              ELSE d
        lg1 == IF isWmf THEN Append(lg, Ev("converted", 0, i, NoDist)) ELSE lg
        min_dist == MinDist(Phash(raw), old_hashes)
        lg2 == Append(lg1, Ev("distance", 0, i, min_dist))
    IN  IF ~StartsWith(part.content_type, <<"image/">>)
        THEN [doc |-> d, log |-> lg, raised |-> FALSE]
        ELSE IF isWmf /\ ~conv.ok
        THEN [doc |-> d, log |-> Append(lg, Ev("convert_failed", 0, i, NoDist)),
              raised |-> FALSE]
        ELSE IF ~ImageOpens(raw)
        THEN [doc |-> d1, log |-> Append(lg1, Ev("cannot_open", 0, i, NoDist)),
              raised |-> FALSE]
        ELSE IF ~PhashOk(raw)
        THEN [doc |-> d1, log |-> lg1, raised |-> TRUE]
        ELSE IF IsMatch(min_dist)
        THEN [doc |-> [d1 EXCEPT !.parts =
                          OverwritePart(d1.parts, d1.rels, i, partname, new_logo)],
              log |-> Append(lg2, Ev("replacing", 0, i, min_dist)),
              raised |-> FALSE]
        ELSE [doc |-> d1, log |-> lg2, raised |-> FALSE]

---------------------------------------------------------------------------
(* load_old_logo_hashes (app.py 33-43).  A directory entry is              *)
(* [suffix, blob]; a missing directory is the empty sequence.              *)

RECURSIVE LoadFrom(_, _)
LoadFrom(dir, i) ==
    IF i > Len(dir) THEN <<>>
    ELSE IF /\ LowerTok(dir[i].suffix) \in {"png", "jpg", "jpeg"}
            /\ ImageOpens(dir[i].blob)
            /\ PhashOk(dir[i].blob)
    THEN <<Phash(dir[i].blob)>> \o LoadFrom(dir, i + 1)
    ELSE LoadFrom(dir, i + 1)

load_old_logo_hashes(dir) == LoadFrom(dir, 1)

---------------------------------------------------------------------------
(* process_pptx (app.py 115-146), one iteration of its shape loop.         *)
(* A slide is the sequence of the children of its shape tree; a shape is   *)
(* [id, type, blob, geom, text].  `for shape in slide.shapes` walks the    *)
(* live tree: when a shape is handed to the loop body the iterator has     *)
(* already stored that shape's then next sibling, so a shape appended      *)
(* while the last shape is in the body is not visited, and one appended    *)
(* earlier is.                                                             *)

\* every mapping applied to one run: run.text = run.text.replace(find, replace)
RECURSIVE ReplaceAll(_, _, _)
ReplaceAll(t, m, i) ==
    IF i > Len(m) THEN t
    ELSE ReplaceAll(StrReplace(t, m[i][1], m[i][2]), m, i + 1)

\* the text replacement of one shape's text frame
ReplaceShapeText(text, m) ==
    [p \in 1..Len(text) |-> [k \in 1..Len(text[p]) |-> ReplaceAll(text[p][k], m, 1)]]

PosOf(slide, id) == CHOOSE k \in 1..Len(slide) : slide[k].id = id

\* the sequence without its k-th element
RemoveAt(seq, k) == SubSeq(seq, 1, k - 1) \o SubSeq(seq, k + 1, Len(seq))

\* the id add_picture gives the new shape: one more than the largest in the
\* tree, whose root holds id 1
NextShapeId(slide) ==
    LET ids == {slide[k].id : k \in 1..Len(slide)} \cup {1}
    IN  (CHOOSE m \in ids : \A x \in ids : x <= m) + 1

\* a variant that passes the position and the size in the wrong order
AddPictureSwapped(slide, blob, left, top, width, height) ==
    Append(slide, [id |-> NextShapeId(slide), type |-> "PICTURE", blob |-> blob,
                   geom |-> [left |-> top, top |-> left,
                             width |-> height, height |-> width],
                   text |-> <<>>])

\* shapes.add_picture(BytesIO(blob), left, top, width, height)
AddPicture(slide, blob, left, top, width, height) ==
    Append(slide, [id |-> NextShapeId(slide), type |-> "PICTURE", blob |-> blob,
                   geom |-> [left |-> left, top |-> top,
                             width |-> width, height |-> height],
                   text |-> <<>>])

\* the iteration for the shape `id` of slide s: the presentation and log
\* after it, and the shape the iterator yields next (0: none)
PptxShapeStep(d, s, id, lg) ==
    LET slide == d.slides[s]
        k == PosOf(slide, id)
        shape == slide[k]
        succ == IF k < Len(slide) THEN slide[k + 1].id ELSE 0
        slide1 == IF shape.type # "PICTURE"
                  THEN [slide EXCEPT ![k].text = ReplaceShapeText(shape.text, mappings)]
                  ELSE slide
        d1 == [d EXCEPT !.slides[s] = slide1]
        min_dist == MinDist(Phash(shape.blob), old_hashes)
        lg1 == Append(lg, Ev("distance", s, id, min_dist))
        lg2 == Append(lg1, Ev("replacing", s, id, min_dist))
        removed == RemoveAt(slide1, k)
    IN  IF shape.type # "PICTURE"
        THEN [doc |-> d1, log |-> lg, next |-> succ]
        ELSE IF ~ImageOpens(shape.blob) \/ ~PhashOk(shape.blob)
        THEN [doc |-> d1, log |-> Append(lg, Ev("error", s, id, NoDist)),
              next |-> succ]
        ELSE IF ~IsMatch(min_dist)
        THEN [doc |-> d1, log |-> lg1, next |-> succ]
        ELSE IF ~AddPictureOk(new_logo)
        THEN [doc |-> [d1 EXCEPT !.slides[s] = removed],
              log |-> Append(lg2, Ev("error", s, id, NoDist)), next |-> succ]
        ELSE [doc |-> [d1 EXCEPT !.slides[s] =
                          AddPicture(removed, new_logo, shape.geom.left,
                                     shape.geom.top, shape.geom.width,
                                     shape.geom.height)],
              log |-> lg2, next |-> succ]

\* the first shape the iterator of slide s yields (0: the slide is empty)
FirstShape(d, s) == IF d.slides[s] = <<>> THEN 0 ELSE d.slides[s][1].id

---------------------------------------------------------------------------
(* process_excel (app.py 149-180).  A workbook is its string/non-string    *)
(* cell values and the entries [filename, compress_type, data] of the      *)
(* archive wb.save writes.                                                 *)

\* the text replacement of one cell value
ReplaceValueOnce(v, find, replace) ==
    IF Contains(find, v) THEN StrReplace(v, find, replace) ELSE v

RECURSIVE ReplaceValue(_, _, _)
ReplaceValue(v, m, i) ==
    IF i > Len(m) THEN v
    ELSE ReplaceValue(ReplaceValueOnce(v, m[i][1], m[i][2]), m, i + 1)

ReplaceCellValues(values, m) ==
    [k \in 1..Len(values) |->
        IF values[k].isstr
        THEN [values[k] EXCEPT !.v = ReplaceValue(values[k].v, m, 1)]
        ELSE values[k]]

\* in_zip.read(name): the data of the last entry of that name
ZipRead(entries, name) ==
    LET last == CHOOSE k \in 1..Len(entries) :
                    /\ entries[k].filename = name
                    /\ \A j \in (k + 1)..Len(entries) : entries[j].filename # name
    IN  entries[last].data

\* a variant that writes under the name alone, so with the archive's
\* default compression
WriteStrInfoDefaultCompression(out, item, data) ==
    Append(out, [filename |-> item.filename, compress_type |-> "STORED",
                 data |-> data])

\* out_zip.writestr(item, data): the entry keeps item's name and
\* compression type
WriteStrInfo(out, item, data) ==
    Append(out, [filename |-> item.filename,
                 compress_type |-> item.compress_type, data |-> data])

\* the iteration for entry i of in_zip: the entries written and the log
XlsxEntryStep(d, i, out, lg) ==
    LET item == d.entries[i]
        data == ZipRead(d.entries, item.filename)
        min_dist == MinDist(Phash(data), old_hashes)
        lg1 == Append(lg, Ev("distance", 0, i, min_dist))
    IN  IF ~(StartsWith(item.filename, <<"xl/media/">>) /\ NonEmpty(data))
        THEN [out |-> WriteStrInfo(out, item, data), log |-> lg]
        ELSE IF ~ImageOpens(data) \/ ~PhashOk(data)
        THEN [out |-> WriteStrInfo(out, item, data),
              log |-> Append(lg, Ev("error", 0, i, NoDist))]
        ELSE IF IsMatch(min_dist)
        THEN [out |-> WriteStrInfo(out, item, new_logo),
              log |-> Append(lg1, Ev("replacing", 0, i, min_dist))]
        ELSE [out |-> WriteStrInfo(out, item, data), log |-> lg1]

---------------------------------------------------------------------------
(* The script's batch (app.py 212-243) and the three process_* functions.  *)
(* An uploaded file is [name, content]; its content is the document the    *)
(* bytes hold: [fmt |-> "docx", paragraphs, cells, parts, rels],           *)
(* [fmt |-> "pptx", slides], [fmt |-> "xlsx", values, entries] or          *)
(* [fmt |-> "junk"], each with `saves`: whether the library can serialize  *)
(* it again.  A saved document is the document record itself.              *)

NoDoc == [fmt |-> "none"]

\* file.name.split('.')[-1]
LastSegment(name) ==
    IF \E k \in 1..Len(name) : name[k] = "."
    THEN LET d == CHOOSE k \in 1..Len(name) :
                     name[k] = "." /\ \A j \in (k + 1)..Len(name) : name[j] # "."
         IN  SubSeq(name, d + 1, Len(name))
    ELSE name

\* ext = file.name.split('.')[-1].lower()
Ext(name) == Lower(LastSegment(name))

\* f"rebranded_{file.name}"
RebrandedName(name) == <<"rebranded_">> \o name

CurFile == uploaded[fileIdx]

\* an uncaught exception ends the script run: nothing after it executes
Raise(what) ==
    /\ pc' = "crashed"
    /\ crash' = what
    /\ UNCHANGED <<fileIdx, zf, it>>

\* zf.writestr(f"rebranded_{file.name}", out.getvalue()) and the next file
WriteOutput(out) ==
    /\ zf' = Append(zf, [name |-> RebrandedName(CurFile.name), data |-> out])
    /\ fileIdx' = fileIdx + 1
    /\ pc' = "loop"
    /\ doc' = NoDoc
    /\ it' = 0
    /\ UNCHANGED crash

Inputs == <<mapping_text, new_logo, uploaded, old_logo_dir, converter, run>>

\* the button is pressed: app.py 212-221
Click ==
    /\ pc = "start"
    /\ IF new_logo = NoFile
       THEN /\ pc' = "nologo"
            /\ UNCHANGED <<old_hashes, fileIdx, zf>>
       ELSE /\ pc' = "loop"
            /\ old_hashes' = load_old_logo_hashes(old_logo_dir)
            /\ fileIdx' = 1
            /\ zf' = <<>>
    /\ UNCHANGED <<Inputs, doc, it, log, crash>>

\* a variant that leaves the loop at the first unrecognised file
SkipFileBreaks ==
    /\ pc = "loop" /\ fileIdx <= Len(uploaded)
    /\ Ext(CurFile.name) \notin {<<"docx">>, <<"pptx">>, <<"xlsx">>, <<"xlsm">>}
    /\ pc' = "done"
    /\ UNCHANGED <<Inputs, old_hashes, fileIdx, zf, doc, it, log, crash>>

\* `else: continue` (app.py 230-231)
SkipFile ==
    /\ pc = "loop" /\ fileIdx <= Len(uploaded)
    /\ Ext(CurFile.name) \notin {<<"docx">>, <<"pptx">>, <<"xlsx">>, <<"xlsm">>}
    /\ fileIdx' = fileIdx + 1
    /\ UNCHANGED <<Inputs, old_hashes, pc, zf, doc, it, log, crash>>

\* the loop is over: the archive is offered for download (app.py 236-243)
Finish ==
    /\ pc = "loop" /\ fileIdx > Len(uploaded)
    /\ pc' = "done"
    /\ UNCHANGED <<Inputs, old_hashes, fileIdx, zf, doc, it, log, crash>>

\* process_docx up to the image loop (app.py 106-108, 60)
OpenDocx ==
    /\ pc = "loop" /\ fileIdx <= Len(uploaded)
    /\ Ext(CurFile.name) = <<"docx">>
    /\ IF CurFile.content.fmt # "docx"
       THEN Raise("load") /\ UNCHANGED doc
       ELSE /\ doc' = replace_text_docx(CurFile.content, mappings)
            /\ pc' = "docx_img"
            /\ it' = 1
            /\ UNCHANGED <<fileIdx, zf, crash>>
    /\ UNCHANGED <<Inputs, old_hashes, log>>

\* one iteration of `for part in doc.part.package.parts`
DocxPart ==
    /\ pc = "docx_img" /\ it <= Len(doc.parts)
    /\ LET r == DocxPartStep(doc, it, log)
       IN  /\ doc' = r.doc
           /\ log' = r.log
           /\ IF r.raised
              THEN Raise("hash")
              ELSE it' = it + 1 /\ UNCHANGED <<pc, fileIdx, zf, crash>>
    /\ UNCHANGED <<Inputs, old_hashes>>

\* doc.save(output) and the archive entry (app.py 109-112, 234)
DocxSave ==
    /\ pc = "docx_img" /\ it > Len(doc.parts)
    /\ IF doc.saves THEN WriteOutput(doc) ELSE Raise("save") /\ UNCHANGED doc
    /\ UNCHANGED <<Inputs, old_hashes, log>>

\* process_pptx up to the first slide (app.py 116-117)
OpenPptx ==
    /\ pc = "loop" /\ fileIdx <= Len(uploaded)
    /\ Ext(CurFile.name) = <<"pptx">>
    /\ IF CurFile.content.fmt # "pptx"
       THEN Raise("load") /\ UNCHANGED doc
       ELSE /\ doc' = CurFile.content
            /\ pc' = "pptx_img"
            /\ it' = [slide |-> 0, next |-> 0]
            /\ UNCHANGED <<fileIdx, zf, crash>>
    /\ UNCHANGED <<Inputs, old_hashes, log>>

\* `for slide_idx, slide in enumerate(prs.slides, start=1)`: the next slide
PptxNextSlide ==
    /\ pc = "pptx_img" /\ it.next = 0 /\ it.slide < Len(doc.slides)
    /\ it' = [slide |-> it.slide + 1, next |-> FirstShape(doc, it.slide + 1)]
    /\ UNCHANGED <<Inputs, old_hashes, pc, fileIdx, zf, doc, log, crash>>

\* one iteration of `for shape in slide.shapes`.  With a new logo that is
\* itself a match and two matching pictures on a slide the loop never ends
\* (every inserted picture is visited and replaced in turn); the model
\* follows it until the shape ids reach MaxShapeId.
PptxShape ==
    /\ pc = "pptx_img" /\ it.next # 0
    /\ NextShapeId(doc.slides[it.slide]) <= MaxShapeId
    /\ LET r == PptxShapeStep(doc, it.slide, it.next, log)
       IN  /\ doc' = r.doc
           /\ log' = r.log
           /\ it' = [slide |-> it.slide, next |-> r.next]
    /\ UNCHANGED <<Inputs, old_hashes, pc, fileIdx, zf, crash>>

\* prs.save(output) and the archive entry (app.py 143-146, 234)
PptxSave ==
    /\ pc = "pptx_img" /\ it.next = 0 /\ it.slide >= Len(doc.slides)
    /\ IF doc.saves THEN WriteOutput(doc) ELSE Raise("save") /\ UNCHANGED doc
    /\ UNCHANGED <<Inputs, old_hashes, log>>

\* process_excel up to the archive loop (app.py 150-163): the workbook is
\* loaded, its cell texts replaced, and saved to the interim archive
OpenXlsx ==
    /\ pc = "loop" /\ fileIdx <= Len(uploaded)
    /\ Ext(CurFile.name) \in {<<"xlsx">>, <<"xlsm">>}
    /\ IF CurFile.content.fmt # "xlsx"
       THEN Raise("load") /\ UNCHANGED doc
       ELSE IF ~CurFile.content.saves
       THEN Raise("save") /\ UNCHANGED doc
       ELSE /\ doc' = [CurFile.content EXCEPT
                          !.values = ReplaceCellValues(@, mappings)]
            /\ pc' = "xlsx_img"
            /\ it' = [idx |-> 1, out |-> <<>>]
            /\ UNCHANGED <<fileIdx, zf, crash>>
    /\ UNCHANGED <<Inputs, old_hashes, log>>

\* one iteration of `for item in in_zip.infolist()`
XlsxEntry ==
    /\ pc = "xlsx_img" /\ it.idx <= Len(doc.entries)
    /\ LET r == XlsxEntryStep(doc, it.idx, it.out, log)
       IN  /\ it' = [idx |-> it.idx + 1, out |-> r.out]
           /\ log' = r.log
    /\ UNCHANGED <<Inputs, old_hashes, pc, fileIdx, zf, doc, crash>>

\* the rewritten archive is returned and added (app.py 179-180, 234)
XlsxSave ==
    /\ pc = "xlsx_img" /\ it.idx > Len(doc.entries)
    /\ WriteOutput([doc EXCEPT !.entries = it.out])
    /\ UNCHANGED <<Inputs, old_hashes, log>>

\* the user uploads the documents of the downloaded archive again, with
\* the same new logo, reference directory and mapping text
Rerun ==
    /\ pc = "done" /\ run = 1 /\ zf # <<>>
    /\ uploaded' = [i \in 1..Len(zf) |-> [name |-> zf[i].name, content |-> zf[i].data]]
    /\ run' = 2
    /\ pc' = "start"
    /\ fileIdx' = 0
    /\ zf' = <<>>
    /\ UNCHANGED <<mapping_text, new_logo, old_logo_dir, converter, old_hashes,
                   doc, it, log, crash>>

Step ==
    \/ Click
    \/ SkipFile
    \/ Finish
    \/ OpenDocx
    \/ DocxPart
    \/ DocxSave
    \/ OpenPptx
    \/ PptxNextSlide
    \/ PptxShape
    \/ PptxSave
    \/ OpenXlsx
    \/ XlsxEntry
    \/ XlsxSave

---------------------------------------------------------------------------
(* The inputs the model draws from.                                        *)

\* the files OLD_LOGO_DIR may hold
LogoZero == [suffix |-> "png", blob |-> Raster(FpZero)]
LogoFar == [suffix |-> "JPG", blob |-> Raster(FpFar)]
LogoBroken == [suffix |-> "png", blob |-> Junk]
LogoNotes == [suffix |-> "txt", blob |-> Raster(FpZero)]

\* the directories the model draws from: missing or empty, one logo, two
\* logos, and files the loader skips
Dirs ==
    { <<>>, <<LogoZero>>, <<LogoNotes, LogoFar>>, <<LogoBroken, LogoFar, LogoZero>> }

Logos == {Raster(FpOver), Raster(FpNear), Junk}

PartName(i, ext) == <<"/word/media/image", ToString(i), ".", ext>>

\* the parts a package may hold at position i
PartPool(i) ==
    { [partname |-> <<"/word/document", ToString(i), ".", "xml">>,
       content_type |-> AppXml, blob |-> Junk] }
    \cup { [partname |-> PartName(i, "png"), content_type |-> ImagePng, blob |-> b] :
              b \in {Raster(FpNear), Raster(FpOver), Raster(FpMid), Truncated, Junk} }
    \cup { [partname |-> PartName(i, "wmf"), content_type |-> ImageWmf,
            blob |-> Metafile(FpNear)],
           [partname |-> PartName(i, "WMF"), content_type |-> ImageWmf,
            blob |-> Metafile(FpOver)] }

\* the relationships of the main document part: one to every part
RelsOf(parts) ==
    [j \in 1..Len(parts) |->
        [reltype |-> IF StartsWith(parts[j].content_type, <<"image/">>)
                     THEN "image" ELSE "other",
         target |-> j]]

DocxOf(paragraphs, cells, parts) ==
    [fmt |-> "docx", saves |-> TRUE, paragraphs |-> paragraphs, cells |-> cells,
     parts |-> parts, rels |-> RelsOf(parts)]

PartSeqs(n) == UNION { {ps \in [1..k -> UNION {PartPool(i) : i \in 1..k}] :
                           \A i \in 1..k : ps[i] \in PartPool(i)} : k \in 0..n }

ImageDocx == { DocxOf(<< <<OldShort>> >>, <<>>, ps) : ps \in PartSeqs(MaxImages) }

Geom(s, k) == [left |-> 100 * s + k, top |-> 200 * s + k,
               width |-> 10 + k, height |-> 20 + s]

\* what a shape may be, before it gets its place
ShapePool ==
    { [type |-> "PICTURE", blob |-> b, text |-> <<>>] :
          b \in {Raster(FpNear), Raster(FpOver), Junk, Truncated} }
    \cup { [type |-> "TEXT_BOX", blob |-> EmptyData, text |-> << <<OldShort>> >>] }

\* the slide s of the given shapes: ids from 2 in tree order
SlideOf(s, shapes) ==
    [k \in 1..Len(shapes) |->
        [id |-> k + 1, type |-> shapes[k].type, blob |-> shapes[k].blob,
         geom |-> Geom(s, k), text |-> shapes[k].text]]

ImagePptx ==
    { [fmt |-> "pptx", saves |-> TRUE, slides |-> <<SlideOf(1, a), SlideOf(2, b)>>] :
          a \in SeqUpTo(ShapePool, MaxImages), b \in SeqUpTo(ShapePool, 1) }

\* the entries a saved workbook archive may hold at position i
EntryPool(i) ==
    { [filename |-> <<"xl/media/", "image", ToString(i), ".png">>,
       compress_type |-> "DEFLATED", data |-> Raster(FpNear)],
      [filename |-> <<"xl/media/", "image", ToString(i), ".png">>,
       compress_type |-> "STORED", data |-> Raster(FpOver)],
      [filename |-> <<"xl/media/", "image", ToString(i), ".png">>,
       compress_type |-> "DEFLATED", data |-> Junk],
      [filename |-> <<"xl/media/", "image", ToString(i), ".png">>,
       compress_type |-> "STORED", data |-> EmptyData],
      [filename |-> <<"xl/drawings/", "image", ToString(i), ".png">>,
       compress_type |-> "DEFLATED", data |-> Raster(FpNear)] }

EntrySeqs(n) == UNION { {es \in [1..k -> UNION {EntryPool(i) : i \in 1..k}] :
                            \A i \in 1..k : es[i] \in EntryPool(i)} : k \in 0..n }

XlsxOf(entries) ==
    [fmt |-> "xlsx", saves |-> TRUE,
     values |-> << [isstr |-> TRUE, v |-> OldShort], [isstr |-> FALSE, v |-> <<>>] >>,
     entries |-> entries]

ImageXlsx == { XlsxOf(es) : es \in EntrySeqs(MaxImages) }

\* the name a document of that format is uploaded under
NameOf(content) ==
    CASE content.fmt = "docx" -> <<"report", ".", "docx">>
      [] content.fmt = "pptx" -> <<"deck", ".", "PPTX">>
      [] OTHER -> <<"book", ".", "xlsx">>

InitCommon ==
    /\ old_hashes = <<>>
    /\ pc = "start"
    /\ run = 1
    /\ fileIdx = 0
    /\ zf = <<>>
    /\ doc = NoDoc
    /\ it = 0
    /\ log = <<>>
    /\ crash = "none"

\* a file the batch loop does not recognise
NotesFile == [name |-> <<"notes", ".", "txt">>, content |-> [fmt |-> "junk", saves |-> TRUE]]

\* one document with embedded images, any logo, any reference directory
Init ==
    /\ mapping_text = DefaultMappingText
    /\ new_logo \in Logos
    /\ old_logo_dir \in Dirs
    /\ \/ \E c \in ImageDocx \cup ImagePptx \cup ImageXlsx :
             /\ uploaded = << [name |-> NameOf(c), content |-> c] >>
             /\ converter \in IF c.fmt = "docx" THEN BOOLEAN ELSE {TRUE}
       \/ uploaded = <<NotesFile>> /\ converter = TRUE
    /\ InitCommon

Next == Step \/ Rerun

Spec == Init /\ [][Next]_vars

---------------------------------------------------------------------------
(* Batches of several small documents.                                     *)

MatchingPart == [partname |-> PartName(1, "png"), content_type |-> ImagePng,
                 blob |-> Raster(FpNear)]

BatchFiles ==
    { [name |-> <<"a", ".", "docx">>,
       content |-> DocxOf(<< <<OldShort>> >>, <<>>, <<MatchingPart>>)],
      [name |-> <<"b", ".", "DOCX">>, content |-> [fmt |-> "junk", saves |-> TRUE]],
      [name |-> <<"c", ".", "pptx">>,
       content |-> [fmt |-> "pptx", saves |-> TRUE,
                    slides |-> <<SlideOf(1, <<[type |-> "PICTURE",
                                               blob |-> Raster(FpNear),
                                               text |-> <<>>]>>)>>]],
      [name |-> <<"d", ".", "xlsm">>,
       content |-> XlsxOf(<<[filename |-> <<"xl/media/", "image1.png">>,
                             compress_type |-> "DEFLATED",
                             data |-> Raster(FpNear)]>>)],
      [name |-> <<"e", ".", "xlsx">>,
       content |-> [XlsxOf(<<>>) EXCEPT !.saves = FALSE]],
      [name |-> <<"f", ".", "docx", ".", "bak">>,
       content |-> DocxOf(<<>>, <<>>, <<>>)],
      NotesFile }

InitBatch ==
    /\ mapping_text = DefaultMappingText
    /\ new_logo \in {NoFile, Raster(FpOver)}
    /\ old_logo_dir = <<LogoZero>>
    /\ uploaded \in SeqUpTo(BatchFiles, MaxBatch) \ {<<>>}
    /\ converter = TRUE
    /\ InitCommon

SpecBatch == InitBatch /\ [][Step]_vars

---------------------------------------------------------------------------
(* Word-processing documents with text and no images.                      *)

\* the texts a run may hold
RunPool ==
    { OldFull, OldShort, <<"A">>, <<"G", "I">>, <<"A", "e">>, <<"c", "o", "n">>,
      <<" ", "G", "r", "o", "u", "p", " ", "I", "n", "c", ".">>,
      <<"H", "i", " ">> }

Paragraphs == SeqUpTo(RunPool, MaxRuns)

\* a second mapping text: a blank line, a key given twice, and a
\* replacement that is itself a find-string of the table
OtherMappingText ==
    << OldAbbr \o <<",">> \o NewAbbr,
       <<" ">>,
       <<"c", "o", "n", ",">> \o OldAbbr,
       OldAbbr \o <<",", "x">> >>

DocumentXml == [partname |-> <<"/word/document", ".", "xml">>,
                content_type |-> AppXml, blob |-> Junk]

TextDocx ==
    { DocxOf(<<p>>, <<>>, <<DocumentXml>>) : p \in Paragraphs }
    \cup { DocxOf(<<>>, << <<p>> >>, <<DocumentXml>>) : p \in Paragraphs }
    \cup { DocxOf(<<>>, << <<p, <<OldShort>> >> >>, <<DocumentXml>>) : p \in Paragraphs }

InitText ==
    /\ mapping_text \in {DefaultMappingText, OtherMappingText}
    /\ new_logo = Raster(FpOver)
    /\ old_logo_dir = <<LogoZero>>
    /\ \E c \in TextDocx : uploaded = << [name |-> NameOf(c), content |-> c] >>
    /\ converter = TRUE
    /\ InitCommon

NextText == Click \/ Finish \/ OpenDocx \/ DocxPart \/ DocxSave

SpecText == InitText /\ [][NextText]_vars

---------------------------------------------------------------------------
(* What the claims speak of.                                               *)

\* some reference fingerprint is within the threshold of the blob's
RefMatch(b) ==
    \E i \in 1..Len(old_hashes) :
        Hamming(Phash(b), old_hashes[i]) <= HASH_THRESHOLD

\* the bytes decode: the blob opens and hashes
Decodes(b) == ImageOpens(b) /\ PhashOk(b)

\* the bytes of a package part that get fingerprinted: the rasterized form
\* of a part named *.wmf, the part's own bytes otherwise
HashedBytes(part) ==
    IF EndsWith(Lower(part.partname), <<".", "wmf">>)
    THEN IF wmf_to_png_blob(part.blob).ok
         THEN wmf_to_png_blob(part.blob).blob ELSE Junk
    ELSE part.blob

IsImagePart(part) == StartsWith(part.content_type, <<"image/">>)

IsMediaEntry(e) == StartsWith(e.filename, <<"xl/media/">>) /\ NonEmpty(e.data)

\* the `what` lines the current run logged
Logged(what, r) == {k \in 1..Len(log) : log[k].what = what /\ log[k].run = r}

\* Spec processes one document per run: its input and, once written, output
In1 == uploaded[1].content
Out1 == zf[1].data
Written(fmt) == zf # <<>> /\ In1.fmt = fmt

---------------------------------------------------------------------------
(* C1.  Every enumerated image whose bytes decode is replaced by the       *)
(* new-logo bytes if and only if some reference fingerprint is within      *)
(* HASH_THRESHOLD of its fingerprint.                                      *)

\* a decodable image part holds the new logo if it matches, its own bytes
\* otherwise
C1_Docx(in, out) ==
    \A i \in 1..Len(in.parts) :
        (IsImagePart(in.parts[i]) /\ Decodes(HashedBytes(in.parts[i])))
        => out.parts[i].blob = IF RefMatch(HashedBytes(in.parts[i]))
                               THEN new_logo ELSE in.parts[i].blob

\* a decodable picture is still on its slide if it does not match, and a
\* picture holding the new logo stands in its place if it does
C1_Pptx(in, out) ==
    \A s \in 1..Len(in.slides) : \A k \in 1..Len(in.slides[s]) :
        LET shape == in.slides[s][k]
        IN  (shape.type = "PICTURE" /\ Decodes(shape.blob))
            => IF RefMatch(shape.blob)
               THEN \E j \in 1..Len(out.slides[s]) :
                       /\ out.slides[s][j].type = "PICTURE"
                       /\ out.slides[s][j].blob = new_logo
                       /\ out.slides[s][j].geom = shape.geom
               ELSE \E j \in 1..Len(out.slides[s]) : out.slides[s][j] = shape

\* a decodable media entry holds the new logo if it matches, its own bytes
\* otherwise
C1_Xlsx(in, out) ==
    \A i \in 1..Len(in.entries) :
        (IsMediaEntry(in.entries[i]) /\ Decodes(in.entries[i].data))
        => out.entries[i].data = IF RefMatch(in.entries[i].data)
                                 THEN new_logo ELSE in.entries[i].data

\* C1: in every written document the decodable images that match, and only
\* they, hold the new logo; with no reference fingerprint nothing is replaced
C1_ReplacedIffMatch ==
    /\ Written("docx") => C1_Docx(In1, Out1)
    /\ Written("pptx") => C1_Pptx(In1, Out1)
    /\ Written("xlsx") => C1_Xlsx(In1, Out1)
    /\ old_hashes = <<>> => Logged("replacing", run) = {}

\* C1 for the new logos the presentation library can read: TLC finds it to
\* hold, so the only failing case of C1 is add_picture raising after the
\* matched shape was removed
C1_WhenLogoReadable == AddPictureOk(new_logo) => C1_ReplacedIffMatch

\* a matching picture was removed from a written presentation
C1_SomePictureReplaced ==
    /\ Written("pptx")
    /\ \E s \in 1..Len(In1.slides) : \E k \in 1..Len(In1.slides[s]) :
          /\ In1.slides[s][k].type = "PICTURE"
          /\ Decodes(In1.slides[s][k].blob)
          /\ RefMatch(In1.slides[s][k].blob)

---------------------------------------------------------------------------
(* C2.  When replace_images_docx returns, every image part that was not    *)
(* judged a match has the bytes and the content type it had before.        *)

\* the part was judged a match
JudgedMatch(part) ==
    /\ IsImagePart(part)
    /\ Decodes(HashedBytes(part))
    /\ RefMatch(HashedBytes(part))

\* C2: at the return of replace_images_docx the parts not judged a match
\* are as they were in the loaded document
C2_UnmatchedPartsUntouched ==
    (pc = "docx_img" /\ it > Len(doc.parts))
    => \A i \in 1..Len(doc.parts) :
          ~JudgedMatch(CurFile.content.parts[i])
          => /\ doc.parts[i].blob = CurFile.content.parts[i].blob
             /\ doc.parts[i].content_type = CurFile.content.parts[i].content_type

\* C2 for the parts whose name does not end in .wmf: TLC finds it to hold
C2_ExceptMetafiles ==
    (pc = "docx_img" /\ it > Len(doc.parts))
    => \A i \in 1..Len(doc.parts) :
          (/\ ~JudgedMatch(CurFile.content.parts[i])
           /\ ~EndsWith(Lower(doc.parts[i].partname), <<".", "wmf">>))
          => doc.parts[i] = CurFile.content.parts[i]

---------------------------------------------------------------------------
(* C3.  A failure to decode, convert or hash one embedded image does not   *)
(* leave the per-image step: the document function still returns.          *)

\* C3: no image-level failure ends the script
C3_ImageFailureIsolated == crash # "hash"

\* C3 for presentations and workbooks, whose loops catch every exception
\* of the per-image step: TLC finds it to hold
C3_PptxXlsxIsolated ==
    (crash = "hash") => CurFile.content.fmt = "docx"

---------------------------------------------------------------------------
(* C4.  A document that cannot be loaded or serialized aborts only that    *)
(* document: the loop goes on and the archive is offered.                  *)

\* C4: no document-level error ends the script before the archive is offered
C4_DocumentFailureIsolated == ~(pc = "crashed" /\ crash \in {"load", "save"})

---------------------------------------------------------------------------
(* C5.  The archive holds one entry rebranded_<name> per uploaded file of  *)
(* a recognised extension, in upload order, and none for the others.       *)

Recognised(name) == Ext(name) \in {<<"docx">>, <<"pptx">>, <<"xlsx">>, <<"xlsm">>}

RECURSIVE ExpectedNames(_)
\* the entry names owed for the first n uploaded files
ExpectedNames(n) ==
    IF n <= 0 THEN <<>>
    ELSE IF Recognised(uploaded[n].name)
    THEN Append(ExpectedNames(n - 1), <<"rebranded_">> \o uploaded[n].name)
    ELSE ExpectedNames(n - 1)

ZipNames == [k \in 1..Len(zf) |-> zf[k].name]

\* C5: while the loop runs the archive holds the entries owed for the files
\* already passed, and when it is offered the entries owed for all of them
C5_ArchiveEntries ==
    /\ pc \in {"loop", "docx_img", "pptx_img", "xlsx_img"}
          => ZipNames = ExpectedNames(fileIdx - 1)
    /\ pc = "done" => ZipNames = ExpectedNames(Len(uploaded))

\* a batch of three whose middle file is not recognised was packed
C5_SkippedInTheMiddle ==
    /\ pc = "done"
    /\ Len(uploaded) = 3
    /\ ~Recognised(uploaded[2].name)
    /\ Len(zf) = 2

---------------------------------------------------------------------------
(* C6.  A replaced picture's successor is on the same slide and has the    *)
(* geometry the removed shape had.                                         *)

\* the shapes of the slide that have geometry g
WithGeom(slide, g) == {k \in 1..Len(slide) : slide[k].geom = g}

\* C6: in a written presentation every shape has a geometry its slide had
\* before, and when the library could insert the new logo every slide holds
\* a new-logo picture with the geometry of each matching picture it had and
\* as many shapes of each geometry as before
C6_GeometryPreserved ==
    Written("pptx") =>
      \A s \in 1..Len(In1.slides) :
        /\ \A j \in 1..Len(Out1.slides[s]) :
              WithGeom(In1.slides[s], Out1.slides[s][j].geom) # {}
        /\ AddPictureOk(new_logo) =>
              \A k \in 1..Len(In1.slides[s]) :
                 /\ (/\ In1.slides[s][k].type = "PICTURE"
                     /\ Decodes(In1.slides[s][k].blob)
                     /\ RefMatch(In1.slides[s][k].blob))
                    => \E j \in WithGeom(Out1.slides[s], In1.slides[s][k].geom) :
                          /\ Out1.slides[s][j].type = "PICTURE"
                          /\ Out1.slides[s][j].blob = new_logo
                 /\ Cardinality(WithGeom(Out1.slides[s], In1.slides[s][k].geom))
                       = Cardinality(WithGeom(In1.slides[s], In1.slides[s][k].geom))

\* a presentation was written in which a matching picture of the second
\* slide was replaced while the first slide holds other shapes
C6_ReplacedOnSecondSlide ==
    /\ Written("pptx")
    /\ run = 1
    /\ AddPictureOk(new_logo)
    /\ In1.slides[1] # <<>>
    /\ \E k \in 1..Len(In1.slides[2]) :
          /\ In1.slides[2][k].type = "PICTURE"
          /\ Decodes(In1.slides[2][k].blob)
          /\ RefMatch(In1.slides[2][k].blob)
          /\ In1.slides[2][k].blob # new_logo
    /\ \E j \in 1..Len(Out1.slides[2]) : Out1.slides[2][j].blob = new_logo

---------------------------------------------------------------------------
(* C8.  Re-processing the output of a run whose new logo matches no        *)
(* reference replaces nothing.                                             *)

\* the new logo hashes, and to a fingerprint beyond the threshold of every
\* reference
LogoMatchesNoReference ==
    /\ Decodes(new_logo)
    /\ \A i \in 1..Len(old_hashes) :
          Hamming(Phash(new_logo), old_hashes[i]) > HASH_THRESHOLD

\* the embedded images of a document, as the three loops enumerate them
ImagesOf(d) ==
    CASE d.fmt = "docx" -> d.parts
      [] d.fmt = "pptx" -> d.slides
      [] d.fmt = "xlsx" -> d.entries
      [] OTHER -> <<>>

---------------------------------------------------------------------------
(* C10.  The rewritten workbook archive has the entries of the serialized  *)
(* one, with their names, order and compression, and their data but for    *)
(* the matched images, which hold the new logo.                            *)

\* what entry e is owed in the output
OwedEntry(e) ==
    [e EXCEPT !.data = IF IsMediaEntry(e) /\ Decodes(e.data) /\ RefMatch(e.data)
                       THEN new_logo ELSE e.data]

\* C10: the entries written so far are those owed for the entries read so
\* far, and the returned archive has one entry per entry of the input
C10_ArchiveRewritten ==
    /\ pc = "xlsx_img"
          => /\ Len(it.out) = it.idx - 1
             /\ \A k \in 1..Len(it.out) : it.out[k] = OwedEntry(doc.entries[k])
    /\ Written("xlsx")
          => /\ Len(Out1.entries) = Len(In1.entries)
             /\ \A k \in 1..Len(In1.entries) :
                   Out1.entries[k] = OwedEntry(In1.entries[k])

\* a workbook was written with one matched image replaced and one entry kept
C10_OneReplacedOneKept ==
    /\ Written("xlsx") /\ run = 1
    /\ new_logo # Raster(FpNear)
    /\ \E k \in 1..Len(In1.entries) :
          IsMediaEntry(In1.entries[k]) /\ Out1.entries[k].data = new_logo
    /\ \E k \in 1..Len(In1.entries) :
          /\ Out1.entries[k].data = In1.entries[k].data
          /\ In1.entries[k].compress_type = "DEFLATED"

---------------------------------------------------------------------------
(* C7.  With the default mapping table a run whose text is                 *)
(* "Aecon Group Inc. (AGI)" reads "North End Connectors (NEC)" after       *)
(* replace_text_docx, and a run that holds no find-string is unaltered.    *)

\* some find-string of the table is a substring of t
HasFind(t) == \E i \in 1..Len(mappings) : Contains(mappings[i][1], t)

\* what C7 says of one run and the run at its place after the pass
RunAsClaimed(before, after) ==
    /\ before = OldFull => after = NewFull
    /\ ~HasFind(before) => after = before

\* replace_text_docx has been applied to the loaded document
TextPassDone == pc = "docx_img"

\* C7 of the runs of the body paragraphs
C7_BodyRuns ==
    (TextPassDone /\ mapping_text = DefaultMappingText)
    => \A p \in 1..Len(CurFile.content.paragraphs) :
          /\ Len(doc.paragraphs[p]) = Len(CurFile.content.paragraphs[p])
          /\ \A k \in 1..Len(CurFile.content.paragraphs[p]) :
                RunAsClaimed(CurFile.content.paragraphs[p][k], doc.paragraphs[p][k])

\* C7 of the runs of the table cells
C7_CellRuns ==
    (TextPassDone /\ mapping_text = DefaultMappingText)
    => \A c \in 1..Len(CurFile.content.cells) :
          \A p \in 1..Len(CurFile.content.cells[c]) :
             \A k \in 1..Len(CurFile.content.cells[c][p]) :
                /\ p <= Len(doc.cells[c])
                /\ k <= Len(doc.cells[c][p])
                /\ RunAsClaimed(CurFile.content.cells[c][p][k], doc.cells[c][p][k])

\* C7: every run of the document is as claimed after the pass
C7_DefaultTableRuns == C7_BodyRuns /\ C7_CellRuns

---------------------------------------------------------------------------
(* C9.  A paragraph none of whose runs holds a find-string keeps every     *)
(* run's text, also when a find-string straddles two of its runs.          *)

NoRunHasFind(par) == \A k \in 1..Len(par) : ~HasFind(par[k])

\* C9 of the body paragraphs
C9_BodyParagraphs ==
    TextPassDone
    => \A p \in 1..Len(CurFile.content.paragraphs) :
          NoRunHasFind(CurFile.content.paragraphs[p])
          => doc.paragraphs[p] = CurFile.content.paragraphs[p]

\* C9 of the paragraphs of the table cells
C9_CellParagraphs ==
    TextPassDone
    => \A c \in 1..Len(CurFile.content.cells) :
          \A p \in 1..Len(CurFile.content.cells[c]) :
             NoRunHasFind(CurFile.content.cells[c][p])
             => /\ p <= Len(doc.cells[c])
                /\ doc.cells[c][p] = CurFile.content.cells[c][p]

\* C9: every paragraph none of whose runs holds a find-string is unchanged
C9_StraddlingFindMissed == C9_BodyParagraphs /\ C9_CellParagraphs

\* a body paragraph with a find-string straddling its two runs went
\* through the pass
C9_BodyStraddle ==
    /\ TextPassDone
    /\ \E p \in 1..Len(CurFile.content.paragraphs) :
          /\ NoRunHasFind(CurFile.content.paragraphs[p])
          /\ HasFind(ParText(CurFile.content.paragraphs[p]))

===========================================================================
